---- MODULE Spec2Model ----
(***************************************************************************)
(* The multiply-accumulate server of examples/sy/mulacc/mulaccwrap/        *)
(* mulacc.py: start_server accepts a connection and hands it to            *)
(* handle_client, which reads chunks, parses two integers from each, adds  *)
(* their product to the module-level accumulator and answers with the      *)
(* accumulator's decimal text followed by a null byte.                     *)
(*                                                                         *)
(* Bytes are integers 0..255, text is a sequence of Unicode code points.   *)
(* The clients and the TCP stream are the environment: a client writes     *)
(* whole byte strings, the stream hands any non-empty prefix of the bytes  *)
(* in flight to a recv.                                                    *)
(***************************************************************************)
EXTENDS Integers, Sequences, FiniteSets, TLC

\* ------------------------------------------------------------------ bounds
\* Number of byte strings the clients write in one run.
MaxWrites == 2
\* Number of non-empty chunks the handler reads in one run.
MaxReads == 2
\* Number of clients that connect to the listener.
MaxClients == 2

\* ------------------------------------------------------- program constants
\* conn.recv(1024)
RecvSize == 1024

\* server_socket.listen(1)
Backlog == 1

NUL == 0

Clients == 1..MaxClients

\* ------------------------------------------------------------ byte strings
\* "2 5\x00"
ReqPos == <<50, 32, 53, 0>>
\* "-3 4\x00"
ReqNeg == <<45, 51, 32, 52, 0>>
\* "2 5": two integers and no terminator
ReqBare == <<50, 32, 53>>
\* "\xc3\xa9\x00": one token that is no number, a two-byte UTF-8 character
\* (U+00E9), and the terminator; either byte alone is not valid UTF-8
ReqAccent == <<195, 169, 0>>
\* "\x00": a terminator alone
ReqEmpty == <<0>>

\* What a client may write in one call.
Requests == {ReqPos, ReqNeg, ReqBare, ReqAccent, ReqEmpty}

Min(a, b) == IF a < b THEN a ELSE b

Range(f) == {f[i] : i \in DOMAIN f}

\* ------------------------------------------------------ bytes.decode("utf-8")
IsCont(b) == b >= 128 /\ b <= 191

\* Number of bytes of the UTF-8 sequence that starts s, 0 when s starts with no
\* valid sequence (strict decoding: no overlong form, no surrogate, nothing
\* above U+10FFFF, no truncated sequence).
Utf8Len(s) ==
  LET b == s[1]
      n == Len(s)
  IN  IF b < 128 THEN 1
      ELSE IF b >= 194 /\ b <= 223
        THEN IF n >= 2 /\ IsCont(s[2]) THEN 2 ELSE 0
      ELSE IF b >= 224 /\ b <= 239
        THEN IF n >= 3 /\ IsCont(s[2]) /\ IsCont(s[3])
                /\ (b = 224 => s[2] >= 160)
                /\ (b = 237 => s[2] <= 159)
             THEN 3 ELSE 0
      ELSE IF b >= 240 /\ b <= 244
        THEN IF n >= 4 /\ IsCont(s[2]) /\ IsCont(s[3]) /\ IsCont(s[4])
                /\ (b = 240 => s[2] >= 144)
                /\ (b = 244 => s[2] <= 143)
             THEN 4 ELSE 0
      ELSE 0

\* The code point of the UTF-8 sequence of k bytes that starts s.
Utf8Point(s, k) ==
  IF k = 1 THEN s[1]
  ELSE IF k = 2 THEN (s[1] - 192) * 64 + (s[2] - 128)
  ELSE IF k = 3 THEN (s[1] - 224) * 4096 + (s[2] - 128) * 64 + (s[3] - 128)
  ELSE (s[1] - 240) * 262144 + (s[2] - 128) * 4096 + (s[3] - 128) * 64 + (s[4] - 128)

RECURSIVE Utf8Valid(_)
Utf8Valid(s) ==
  IF s = <<>> THEN TRUE
  ELSE LET k == Utf8Len(s)
       IN  k > 0 /\ Utf8Valid(SubSeq(s, k + 1, Len(s)))

\* The text of a valid byte string.
RECURSIVE Utf8Decode(_)
Utf8Decode(s) ==
  IF s = <<>> THEN <<>>
  ELSE LET k == Utf8Len(s)
       IN  <<Utf8Point(s, k)>> \o Utf8Decode(SubSeq(s, k + 1, Len(s)))

\* ------------------------------------------------------ str.encode("utf-8")
Utf8Char(c) ==
  IF c < 128 THEN <<c>>
  ELSE IF c < 2048 THEN <<192 + (c \div 64), 128 + (c % 64)>>
  ELSE IF c < 65536
    THEN <<224 + (c \div 4096), 128 + ((c \div 64) % 64), 128 + (c % 64)>>
  ELSE <<240 + (c \div 262144), 128 + ((c \div 4096) % 64),
         128 + ((c \div 64) % 64), 128 + (c % 64)>>

RECURSIVE Utf8Encode(_)
Utf8Encode(t) ==
  IF t = <<>> THEN <<>> ELSE Utf8Char(Head(t)) \o Utf8Encode(Tail(t))

\* ------------------------------------------------------- str.rstrip("\x00")
\* (RStripNulAll: the variant that removes every null character.)
RECURSIVE RStripNulAll(_)
RStripNulAll(t) ==
  IF t = <<>> THEN <<>>
  ELSE IF Head(t) = NUL THEN RStripNulAll(Tail(t))
  ELSE <<Head(t)>> \o RStripNulAll(Tail(t))
RECURSIVE RStripNul(_)
RStripNul(t) ==
  IF t # <<>> /\ t[Len(t)] = NUL THEN RStripNul(SubSeq(t, 1, Len(t) - 1)) ELSE t

\* --------------------------------------------------------------- str.split()
\* The characters str.split() with no argument splits at (str.isspace).
IsSpace(c) ==
  \/ c >= 9 /\ c <= 13
  \/ c >= 28 /\ c <= 32
  \/ c \in {133, 160, 5760, 8232, 8233, 8239, 8287, 12288}
  \/ c >= 8192 /\ c <= 8202

\* Tokens of t: maximal runs of non-space characters, cur being the run in
\* progress; empty strings are never produced.
RECURSIVE SplitFrom(_, _)
SplitFrom(t, cur) ==
  IF t = <<>> THEN (IF cur = <<>> THEN <<>> ELSE <<cur>>)
  ELSE IF IsSpace(Head(t))
    THEN (IF cur = <<>> THEN <<>> ELSE <<cur>>) \o SplitFrom(Tail(t), <<>>)
  ELSE SplitFrom(Tail(t), Append(cur, Head(t)))

Split(t) == SplitFrom(t, <<>>)

\* ------------------------------------------------------------------- int()
\* ASCII digits; the byte strings of Requests hold no other decimal digit.
IsDigit(c) == c >= 48 /\ c <= 57

\* Digits with single underscores between them, starting and ending with a digit.
RECURSIVE DigitsOK(_)
DigitsOK(t) ==
  /\ t # <<>>
  /\ IsDigit(t[1])
  /\ \/ Len(t) = 1
     \/ IsDigit(t[2]) /\ DigitsOK(Tail(t))
     \/ Len(t) >= 3 /\ t[2] = 95 /\ DigitsOK(SubSeq(t, 3, Len(t)))

RECURSIVE DigitsValue(_, _)
DigitsValue(t, acc) ==
  IF t = <<>> THEN acc
  ELSE IF Head(t) = 95 THEN DigitsValue(Tail(t), acc)
  ELSE DigitsValue(Tail(t), acc * 10 + (Head(t) - 48))

\* int(token) for a token without white space: an optional sign, then digits.
\* ok = FALSE is ValueError.
IntParse(t) ==
  LET signed == t # <<>> /\ t[1] \in {43, 45}
      body == IF signed THEN Tail(t) ELSE t
  IN  IF DigitsOK(body)
      THEN [ok |-> TRUE,
            val |-> IF signed /\ t[1] = 45 THEN 0 - DigitsValue(body, 0)
                    ELSE DigitsValue(body, 0)]
      ELSE [ok |-> FALSE, val |-> 0]

\* ------------------------------------------------------------------- str()
RECURSIVE NatToStr(_)
NatToStr(n) ==
  IF n < 10 THEN <<48 + n>> ELSE Append(NatToStr(n \div 10), 48 + (n % 10))

IntToStr(n) == IF n < 0 THEN <<45>> \o NatToStr(0 - n) ELSE NatToStr(n)

\* -------------------------------------------------------------------- state
VARIABLES
  accumulator,  \* the module-level accumulator
  spc,          \* start_server: "start", "accept", "handle", "done", "failed"
  hpc,          \* handle_client: "idle", "recv", "process", "send", "returned",
                \* "raised"
  conn,         \* the client whose connection handle_client serves, 0 before accept
  data,         \* the chunk of the last recv
  message,      \* the decoded and stripped text of the chunk
  exc,          \* the exception handle_client ended with, "none" when there is none
  pending,      \* connections completed by the listener and not yet accepted
  client,       \* per client: "idle", "open", "closed"
  wire,         \* per client: the bytes written and not yet received
  nWrites,      \* number of writes the clients have made
  io            \* the calls made on the sockets, in order

vars == <<accumulator, spc, hpc, conn, data, message, exc, pending, client, wire,
          nWrites, io>>

\* One call on a socket: accept on the listener, recv, sendall and close on the
\* connection of client c. data is the chunk received or the response given to
\* sendall, acc the accumulator at the call, eof whether the peer had closed and
\* nothing was left in flight after a recv.
Event(op, c, d, e) == [op |-> op, conn |-> c, data |-> d, acc |-> accumulator, eof |-> e]

NReads == Cardinality({i \in 1..Len(io) : io[i].op = "recv" /\ io[i].data # <<>>})

IsClosed(c) == \E i \in 1..Len(io) : io[i].op = "close" /\ io[i].conn = c

\* ------------------------------------------------------------- start_server
\* What follows handle_client(connection): the end of start_server (the
\* "while True" above accept is commented out).
\* (AfterSessionLoop: the variant with the loop, back to accept.)
AfterSessionLoop == "accept"
AfterSession == "done"

\* socket(), bind(("localhost", 1212)), listen(1)
Listen ==
  /\ spc = "start"
  /\ spc' = "accept"
  /\ UNCHANGED <<accumulator, hpc, conn, data, message, exc, pending, client, wire, nWrites, io>>

\* bind raising OSError (address in use): start_server ends with the error.
BindError ==
  /\ spc = "start"
  /\ spc' = "failed"
  /\ UNCHANGED <<accumulator, hpc, conn, data, message, exc, pending, client, wire, nWrites, io>>

\* connection, client_address = server_socket.accept(); handle_client(connection)
Accept ==
  /\ spc = "accept"
  /\ pending # <<>>
  /\ conn' = Head(pending)
  /\ pending' = Tail(pending)
  /\ io' = Append(io, Event("accept", Head(pending), <<>>, FALSE))
  /\ spc' = "handle"
  /\ hpc' = "recv"
  /\ exc' = "none"
  /\ UNCHANGED <<accumulator, data, message, client, wire, nWrites>>

\* ------------------------------------------------------------ handle_client
\* finally: conn.close(), run when the try block is left by break (e = "none")
\* and when it is left by an exception. log is the calls made so far.
\* (FinallyOnBreakOnly: the variant that closes after the loop instead, which an
\* exception skips.)
FinallyOnBreakOnly(e, log) ==
  IF e = "none" THEN Append(log, Event("close", conn, <<>>, FALSE)) ELSE log
Finally(e, log) == Append(log, Event("close", conn, <<>>, FALSE))

\* The try block is left: the finally clause runs, handle_client returns or
\* raises e, and start_server, which catches nothing, goes on or ends with e.
Leave(e, log) ==
  /\ exc' = e
  /\ io' = Finally(e, log)
  /\ hpc' = IF e = "none" THEN "returned" ELSE "raised"
  /\ spc' = IF e = "none" THEN AfterSession ELSE "failed"

\* if not data: break
\* (BreakOnEmptyNever: the variant without the test.)
BreakOnEmptyNever(d) == FALSE
BreakOnEmpty(d) == d = <<>>

\* data.decode("utf-8") stands before the inner try: its UnicodeDecodeError (a
\* ValueError) is not caught by the except clause.
\* (DecodeInsideTry: the variant with the decode inside the try.)
DecodeInsideTry == TRUE
DecodeCaught == FALSE

\* message = data.decode("utf-8").rstrip("\x00"): the assignment drops the text
\* of the chunk before (msg).
\* (NextMessageAppended: the variant that keeps it, message += ....)
NextMessageAppended(msg, d) == msg \o RStripNul(Utf8Decode(d))
NextMessage(msg, d) == RStripNul(Utf8Decode(d))

\* except ValueError: result = 0, and control falls through to the response.
\* (OnValueErrorContinue: the variant that goes back to recv without a response;
\* OnValueErrorRaise: the variant whose except clause does not catch ValueError.)
OnValueErrorContinue == "recv"
OnValueErrorRaise == "raise"
OnValueError == "send"

\* a, b = map(int, message.split()): the tokens are converted one by one as the
\* unpacking asks for them; a token missing, a token int() refuses, or a third
\* token, each raise ValueError. ok = FALSE is that ValueError.
\* (ParseRequestLenient: the variant that takes a lone first integer, or a first
\* integer before a token that is none, as a request with b = 1.)
ParseRequestLenient(m) ==
  LET toks == Split(m)
  IN  IF Len(toks) >= 1 /\ IntParse(toks[1]).ok
      THEN [ok |-> TRUE, a |-> IntParse(toks[1]).val,
            b |-> IF Len(toks) >= 2 /\ IntParse(toks[2]).ok
                  THEN IntParse(toks[2]).val ELSE 1]
      ELSE [ok |-> FALSE, a |-> 0, b |-> 0]
ParseRequest(m) ==
  LET toks == Split(m)
  IN  IF Len(toks) = 2 /\ IntParse(toks[1]).ok /\ IntParse(toks[2]).ok
      THEN [ok |-> TRUE, a |-> IntParse(toks[1]).val, b |-> IntParse(toks[2]).val]
      ELSE [ok |-> FALSE, a |-> 0, b |-> 0]

\* result = a * b; accumulator += result
\* (AccumulateOverwrite: the variant with = for +=.)
AccumulateOverwrite(acc, a, b) == a * b
Accumulate(acc, a, b) == acc + a * b

\* response = f"{accumulator}\x00"; response.encode("utf-8")
\* (ResponseUnsigned: the variant that formats the magnitude.)
ResponseUnsigned(acc) == Utf8Encode(NatToStr(IF acc < 0 THEN 0 - acc ELSE acc) \o <<NUL>>)
Response(acc) == Utf8Encode(IntToStr(acc) \o <<NUL>>)

\* conn.sendall raising: no except clause catches OSError, the loop is left.
\* (SendErrorSwallowed: the variant that catches it and goes on with the loop.)
SendErrorSwallowed == FALSE
SendErrorLeaves == TRUE

\* The accumulator after conn.sendall raised on the response to chunk d: nothing
\* between line 38 and the finally clause touches it.
\* (AfterSendFailureRolledBack: the variant that takes the product of d back.)
AfterSendFailureRolledBack(acc, d) ==
  LET r == ParseRequest(RStripNul(Utf8Decode(d)))
  IN  IF r.ok THEN acc - r.a * r.b ELSE acc
AfterSendFailure(acc, d) == acc

\* data = conn.recv(1024) returning some n bytes of those in flight, at most 1024.
RecvData ==
  /\ hpc = "recv"
  /\ NReads < MaxReads
  /\ \E n \in 1..Min(Len(wire[conn]), RecvSize) :
       LET d == SubSeq(wire[conn], 1, n)
           rest == SubSeq(wire[conn], n + 1, Len(wire[conn]))
       IN  /\ data' = d
           /\ wire' = [wire EXCEPT ![conn] = rest]
           /\ io' = Append(io, Event("recv", conn, d, client[conn] = "closed" /\ rest = <<>>))
  /\ hpc' = "process"
  /\ UNCHANGED <<accumulator, spc, conn, message, exc, pending, client, nWrites>>

\* data = conn.recv(1024) returning b"": the peer has closed and nothing is left
\* in flight. if not data: break.
RecvEof ==
  /\ hpc = "recv"
  /\ wire[conn] = <<>>
  /\ client[conn] = "closed"
  /\ data' = <<>>
  /\ LET log == Append(io, Event("recv", conn, <<>>, TRUE))
     IN  IF BreakOnEmpty(<<>>)
         THEN Leave("none", log)
         ELSE io' = log /\ hpc' = "process" /\ UNCHANGED <<exc, spc>>
  /\ UNCHANGED <<accumulator, conn, message, pending, client, wire, nWrites>>

\* conn.recv raising OSError (a reset connection).
RecvError ==
  /\ hpc = "recv"
  /\ Leave("OSError", Append(io, Event("recv_error", conn, <<>>, FALSE)))
  /\ UNCHANGED <<accumulator, conn, data, message, pending, client, wire, nWrites>>

\* message = data.decode("utf-8").rstrip("\x00")
\* try: a, b = map(int, message.split()); result = a * b; accumulator += result
\* except ValueError: result = 0
Process ==
  /\ hpc = "process"
  /\ IF Utf8Valid(data)
     THEN LET m == NextMessage(message, data)
              r == ParseRequest(m)
          IN  /\ message' = m
              /\ IF r.ok
                 THEN /\ accumulator' = Accumulate(accumulator, r.a, r.b)
                      /\ hpc' = "send"
                      /\ UNCHANGED <<exc, spc, io>>
                 ELSE IF OnValueError = "raise"
                 THEN /\ accumulator' = accumulator
                      /\ Leave("ValueError", io)
                 ELSE /\ accumulator' = accumulator
                      /\ hpc' = OnValueError
                      /\ UNCHANGED <<exc, spc, io>>
     ELSE IF DecodeCaught
     THEN /\ hpc' = "send"
          /\ UNCHANGED <<message, accumulator, exc, spc, io>>
     ELSE /\ Leave("UnicodeDecodeError", io)
          /\ UNCHANGED <<message, accumulator>>
  /\ UNCHANGED <<conn, data, pending, client, wire, nWrites>>

\* response = f"{accumulator}\x00"; conn.sendall(response.encode("utf-8"))
SendOk ==
  /\ hpc = "send"
  /\ io' = Append(io, Event("send", conn, Response(accumulator), FALSE))
  /\ hpc' = "recv"
  /\ UNCHANGED <<accumulator, spc, conn, data, message, exc, pending, client, wire, nWrites>>

\* conn.sendall raising OSError (a broken pipe, a reset connection).
SendError ==
  /\ hpc = "send"
  /\ LET log == Append(io, Event("send_error", conn, Response(accumulator), FALSE))
     IN  IF SendErrorLeaves
         THEN Leave("OSError", log)
         ELSE io' = log /\ hpc' = "recv" /\ UNCHANGED <<exc, spc>>
  /\ accumulator' = AfterSendFailure(accumulator, data)
  /\ UNCHANGED <<conn, data, message, pending, client, wire, nWrites>>

\* -------------------------------------------------------------- environment
\* The clients connect one after the other, in the order of their numbers, while
\* the listening socket exists and its backlog has room.
ClientConnect(c) ==
  /\ spc \in {"accept", "handle"}
  /\ Len(pending) < Backlog
  /\ client[c] = "idle"
  /\ \A d \in Clients : d < c => client[d] # "idle"
  /\ client' = [client EXCEPT ![c] = "open"]
  /\ pending' = Append(pending, c)
  /\ UNCHANGED <<accumulator, spc, hpc, conn, data, message, exc, wire, nWrites, io>>

\* The client of the accepted connection writes a byte string. What a client
\* writes before its connection is accepted is received like what it writes
\* after, and what it writes after the server closed the connection reaches
\* nobody: both are left out.
ClientWrite(c, m) ==
  /\ client[c] = "open"
  /\ c = conn
  /\ ~IsClosed(c)
  /\ nWrites < MaxWrites
  /\ wire' = [wire EXCEPT ![c] = wire[c] \o m]
  /\ nWrites' = nWrites + 1
  /\ UNCHANGED <<accumulator, spc, hpc, conn, data, message, exc, pending, client, io>>

\* The client of the accepted connection closes its end.
ClientClose(c) ==
  /\ client[c] = "open"
  /\ c = conn
  /\ ~IsClosed(c)
  /\ client' = [client EXCEPT ![c] = "closed"]
  /\ UNCHANGED <<accumulator, spc, hpc, conn, data, message, exc, pending, wire, nWrites, io>>

\* ------------------------------------------------------------ specification
Init ==
  /\ accumulator = 0
  /\ spc = "start"
  /\ hpc = "idle"
  /\ conn = 0
  /\ data = <<>>
  /\ message = <<>>
  /\ exc = "none"
  /\ pending = <<>>
  /\ client = [c \in Clients |-> "idle"]
  /\ wire = [c \in Clients |-> <<>>]
  /\ nWrites = 0
  /\ io = <<>>

Next ==
  \/ Listen
  \/ BindError
  \/ Accept
  \/ RecvData
  \/ RecvEof
  \/ RecvError
  \/ Process
  \/ SendOk
  \/ SendError
  \/ \E c \in Clients : ClientConnect(c)
  \/ \E c \in Clients, m \in Requests : ClientWrite(c, m)
  \/ \E c \in Clients : ClientClose(c)

Spec == Init /\ [][Next]_vars

\* --------------------------------------------------------------- vocabulary
IsRecv(e) == e.op = "recv" /\ e.data # <<>>
IsReply(e) == e.op \in {"send", "send_error"}

\* The non-empty chunks received, and the responses handed to sendall, in order.
Chunks == SelectSeq(io, IsRecv)
Replies == SelectSeq(io, IsReply)

\* Whether chunk d holds exactly two integers once decoded, stripped of its
\* trailing null bytes and split at white space; and their product, 0 otherwise.
ChunkTokens(d) == Split(RStripNul(Utf8Decode(d)))

IsPair(d) ==
  /\ Utf8Valid(d)
  /\ LET toks == ChunkTokens(d)
     IN  Len(toks) = 2 /\ IntParse(toks[1]).ok /\ IntParse(toks[2]).ok

ChunkProduct(d) ==
  IF Utf8Valid(d)
  THEN LET toks == ChunkTokens(d)
       IN  IF Len(toks) = 2 /\ IntParse(toks[1]).ok /\ IntParse(toks[2]).ok
           THEN IntParse(toks[1]).val * IntParse(toks[2]).val
           ELSE 0
  ELSE 0

\* The running sums of the products of the chunks cs[k], cs[k+1], ..., on top
\* of sum: the totals after each of these chunks, in order.
RECURSIVE RunningSums(_, _, _)
RunningSums(cs, k, sum) ==
  IF k > Len(cs) THEN <<>>
  ELSE LET next == sum + ChunkProduct(cs[k].data)
       IN  <<next>> \o RunningSums(cs, k + 1, next)

\* The total after the first k chunks, given the running sums.
TotalAfter(sums, k) == IF k = 0 THEN 0 ELSE sums[k]

\* The decimal text of n followed by one null byte.
WireText(n) == IntToStr(n) \o <<NUL>>

\* Number of chunks the parse step has dealt with.
Processed == IF hpc = "process" THEN Len(Chunks) - 1 ELSE Len(Chunks)

TypeOK ==
  /\ accumulator \in Int
  /\ spc \in {"start", "accept", "handle", "done", "failed"}
  /\ hpc \in {"idle", "recv", "process", "send", "returned", "raised"}
  /\ conn \in Clients \cup {0}
  /\ exc \in {"none", "OSError", "UnicodeDecodeError", "ValueError"}

\* ------------------------------------------------------------------- claims
\* C1: the accumulator equals the sum of a*b over the chunks that parsed as two
\* integers, malformed chunks counting 0, and the response for the k-th chunk is
\* the decimal text of that sum over the first k chunks (the updated value).
C1_RunningTotal ==
  LET sums == RunningSums(Chunks, 1, 0)
      replies == Replies
  IN  /\ accumulator = TotalAfter(sums, Processed)
      /\ Len(replies) <= Len(sums)
      /\ \A k \in 1..Len(replies) : replies[k].data = WireText(sums[k])

\* Two chunks answered, the first malformed and the second valid.
C1_Witness ==
  /\ Len(Replies) = 2
  /\ ~IsPair(Chunks[1].data)
  /\ IsPair(Chunks[2].data)
  /\ ChunkProduct(Chunks[2].data) # 0
  /\ Replies[1].data = WireText(0)
  /\ Replies[2].data = WireText(accumulator)

\* C2: a chunk that decodes and does not hold exactly two integers leaves the
\* accumulator unchanged, the unchanged total is handed to sendall as the response,
\* handle_client has not ended by then, the connection is not closed, and after
\* the response the handler is at its next read.
C2_MalformedAbsorbed ==
  \A i \in 1..Len(io) :
    (IsRecv(io[i]) /\ Utf8Valid(io[i].data) /\ ~IsPair(io[i].data)) =>
      IF i = Len(io)
      THEN /\ hpc \in {"process", "send"}
           /\ accumulator = io[i].acc
           /\ exc = "none"
           /\ ~IsClosed(io[i].conn)
      ELSE /\ IsReply(io[i + 1])
           /\ io[i + 1].conn = io[i].conn
           /\ io[i + 1].acc = io[i].acc
           /\ io[i + 1].data = WireText(io[i].acc)
           /\ io[i + 1].op = "send" =>
                IF i + 1 = Len(io)
                THEN hpc = "recv" /\ exc = "none" /\ ~IsClosed(io[i].conn)
                ELSE io[i + 2].op \in {"recv", "recv_error"}
                     /\ io[i + 2].conn = io[i].conn

\* A malformed chunk answered with a total that is not 0, the handler back at recv.
C2_Witness ==
  /\ hpc = "recv"
  /\ Len(io) >= 2
  /\ io[Len(io)].op = "send"
  /\ IsRecv(io[Len(io) - 1])
  /\ Utf8Valid(io[Len(io) - 1].data)
  /\ ~IsPair(io[Len(io) - 1].data)
  /\ accumulator # 0

\* The bytes received so far: the chunks of cs put end to end.
RECURSIVE Concat(_, _)
Concat(cs, k) == IF k = 0 THEN <<>> ELSE Concat(cs, k - 1) \o cs[k].data

Received == Concat(Chunks, Len(Chunks))

\* A byte string cut at its null bytes: the requests of a stream in which every
\* request ends with one null byte.
Framed(s) == s = <<>> \/ s[Len(s)] = NUL

RECURSIVE FramesFrom(_, _)
FramesFrom(s, cur) ==
  IF s = <<>> THEN <<>>
  ELSE IF Head(s) = NUL THEN <<cur>> \o FramesFrom(Tail(s), <<>>)
  ELSE FramesFrom(Tail(s), Append(cur, Head(s)))

Frames(s) == FramesFrom(s, <<>>)

\* The frames as chunks, to sum their products like those of chunks.
AsChunks(fs) == [k \in 1..Len(fs) |-> [data |-> fs[k]]]

\* C3: when the client has written well-formed requests "<int> <int>\x00" and the
\* server has received and answered all their bytes, however the stream cut them
\* into reads, there is one response per request and the k-th response is the
\* decimal sum of the first k products followed by a null byte.
C3_FramedByTerminator ==
  (hpc = "recv" /\ wire[conn] = <<>>) =>
    LET stream == Received
        frames == Frames(stream)
        sums == RunningSums(AsChunks(frames), 1, 0)
        replies == Replies
    IN  (Framed(stream) /\ \A k \in 1..Len(frames) : IsPair(frames[k])) =>
          /\ Len(replies) = Len(frames)
          /\ \A k \in 1..Len(replies) : replies[k].data = WireText(sums[k])

\* The accumulator after the handler has dealt with the chunk of io[i].
AccAfter(i) == IF i = Len(io) THEN accumulator ELSE io[i + 1].acc

\* C4: a chunk changes the accumulator only if it ends with a null byte or the
\* stream had ended with it (the peer closed, nothing left in flight).
C4_OnlyDelimited ==
  \A i \in 1..Len(io) :
    (IsRecv(io[i]) /\ AccAfter(i) # io[i].acc) =>
      (io[i].data[Len(io[i].data)] = NUL \/ io[i].eof)

\* C5: when handle_client has returned or raised, whatever ended it, close has
\* been called on its connection, and no recv or sendall follows a close on the
\* same connection.
C5_ClosedOnEveryExit ==
  /\ hpc \in {"returned", "raised"} => IsClosed(conn)
  /\ \A i \in 1..Len(io) : \A j \in 1..Len(io) :
       (i < j /\ io[i].op = "close" /\ io[j].conn = io[i].conn) =>
         io[j].op \notin {"recv", "recv_error", "send", "send_error"}

\* The handler ended by a failed sendall after a served request, connection closed.
C5_Witness ==
  /\ hpc = "raised"
  /\ exc = "OSError"
  /\ Len(io) >= 4
  /\ io[Len(io)].op = "close"
  /\ io[Len(io) - 1].op = "send_error"
  /\ \E i \in 1..Len(io) : io[i].op = "send"

\* C6: a read of zero bytes is followed by close and by nothing else: no response
\* for it, the accumulator as it was, no exception, handle_client returned and
\* start_server ended normally.
C6_CleanShutdown ==
  \A i \in 1..Len(io) :
    (io[i].op = "recv" /\ io[i].data = <<>>) =>
      /\ i + 1 = Len(io)
      /\ io[i + 1].op = "close"
      /\ io[i + 1].conn = io[i].conn
      /\ accumulator = io[i].acc
      /\ hpc = "returned"
      /\ exc = "none"
      /\ spc = "done"

\* A zero-byte read after a served request.
C6_Witness ==
  /\ hpc = "returned"
  /\ Len(io) >= 4
  /\ io[Len(io) - 1].op = "recv"
  /\ io[Len(io) - 1].data = <<>>
  /\ io[Len(io) - 2].op = "send"
  /\ accumulator # 0

\* C7: a chunk that is not valid UTF-8 is followed by close and by nothing else:
\* no response for it, no further read, the accumulator as it was, and
\* handle_client raised UnicodeDecodeError, which ended start_server too.
C7_DecodeFailureFatal ==
  \A i \in 1..Len(io) :
    (IsRecv(io[i]) /\ ~Utf8Valid(io[i].data)) =>
      IF i = Len(io)
      THEN hpc = "process" /\ accumulator = io[i].acc
      ELSE /\ i + 1 = Len(io)
           /\ io[i + 1].op = "close"
           /\ io[i + 1].conn = io[i].conn
           /\ accumulator = io[i].acc
           /\ hpc = "raised"
           /\ exc = "UnicodeDecodeError"
           /\ spc = "failed"

\* An undecodable chunk after a served request has ended the handler.
C7_Witness ==
  /\ hpc = "raised"
  /\ exc = "UnicodeDecodeError"
  /\ Len(io) >= 5
  /\ IsRecv(io[Len(io) - 1])
  /\ ~Utf8Valid(io[Len(io) - 1].data)
  /\ io[Len(io) - 2].op = "send"
  /\ accumulator # 0

\* C8: a failed sendall is followed by close and by nothing else: no second
\* attempt, no further read or write, and handle_client raised the error.
C8_WriteFailureEndsSession ==
  \A i \in 1..Len(io) :
    io[i].op = "send_error" =>
      /\ i + 1 = Len(io)
      /\ io[i + 1].op = "close"
      /\ io[i + 1].conn = io[i].conn
      /\ hpc = "raised"
      /\ exc = "OSError"
      /\ spc = "failed"

\* A failed sendall of a response to a valid request, with bytes still in flight.
C8_Witness ==
  /\ hpc = "raised"
  /\ Len(io) >= 3
  /\ io[Len(io) - 1].op = "send_error"
  /\ IsPair(io[Len(io) - 2].data)
  /\ wire[conn] # <<>>

\* C9: accept is called at most once, every call on a connection is on the one
\* accepted connection, no other client is sent a response, and once the handler
\* has returned start_server has ended.
AcceptCount == Cardinality({i \in 1..Len(io) : io[i].op = "accept"})

C9_ServeOne ==
  /\ AcceptCount <= 1
  /\ hpc # "idle" => AcceptCount = 1 /\ io[1].op = "accept"
  /\ \A i \in 1..Len(io) : io[i].conn = io[1].conn
  /\ \A i \in 1..Len(io) : \A c \in Clients :
       (io[i].op = "send" /\ c \in Range(pending)) => io[i].conn # c
  /\ hpc = "returned" => spc = "done"
  /\ hpc = "raised" => spc = "failed"
  /\ spc \in {"done", "failed"} => hpc \in {"idle", "returned", "raised"}

\* The session is over, a second client has connected and waits unserved.
C9_Witness ==
  /\ spc = "done"
  /\ pending # <<>>
  /\ \E i \in 1..Len(io) : io[i].op = "send"

\* The decimal digits of a natural number, most significant first, read back.
RECURSIVE DecValue(_)
DecValue(t) == IF t = <<>> THEN 0 ELSE DecValue(SubSeq(t, 1, Len(t) - 1)) * 10 + (t[Len(t)] - 48)

\* d is the base-10 text of n, '-' first exactly when n < 0, no '+', no leading
\* zero or other padding, followed by exactly one null byte.
IsWireFormat(d, n) ==
  /\ Len(d) >= 2
  /\ d[Len(d)] = NUL
  /\ LET body == SubSeq(d, 1, Len(d) - 1)
         digits == IF body[1] = 45 THEN Tail(body) ELSE body
     IN  /\ (body[1] = 45) <=> (n < 0)
         /\ digits # <<>>
         /\ \A k \in 1..Len(digits) : digits[k] >= 48 /\ digits[k] <= 57
         /\ Len(digits) > 1 => digits[1] # 48
         /\ DecValue(digits) = (IF n < 0 THEN 0 - n ELSE n)

\* C10: every response handed to sendall is the base-10 text of the accumulator
\* at that moment followed by one null byte; the chunk "-3 4\x00" received at total
\* 0 is answered "-12\x00".
C10_WireFormat ==
  /\ \A i \in 1..Len(io) : IsReply(io[i]) => IsWireFormat(io[i].data, io[i].acc)
  /\ \A i \in 1..Len(io) :
       (IsReply(io[i]) /\ i > 1 /\ io[i - 1].op = "recv"
        /\ io[i - 1].data = ReqNeg /\ io[i - 1].acc = 0)
       => io[i].data = <<45, 49, 50, 0>>

\* "10\x00" sent, then a negative product, then "-2\x00" sent.
C10_Witness ==
  /\ Len(Replies) = 2
  /\ Replies[1].data = <<49, 48, 0>>
  /\ Replies[2].data = <<45, 50, 0>>
  /\ Replies[2].op = "send"

\* The places in io of the calls that satisfy P, in order.
Places(P(_)) ==
  LET at(i) == P(io[i])
  IN  SelectSeq([i \in 1..Len(io) |-> i], at)

\* C11: every non-empty chunk that decodes is followed at once by one response
\* handed to sendall, and the next read comes only after it; every response
\* comes right after the read of a chunk, on the same connection; so the k-th
\* response answers the k-th chunk.
C11_Alternation ==
  /\ \A i \in 1..Len(io) :
       (IsRecv(io[i]) /\ Utf8Valid(io[i].data)) =>
         IF i = Len(io)
         THEN hpc \in {"process", "send"}
         ELSE IsReply(io[i + 1]) /\ io[i + 1].conn = io[i].conn
  /\ \A i \in 1..Len(io) :
       IsReply(io[i]) => i > 1 /\ IsRecv(io[i - 1]) /\ io[i - 1].conn = io[i].conn
  /\ hpc = "send" => IsRecv(io[Len(io)])
  /\ LET chunkAt == Places(IsRecv)
         replyAt == Places(IsReply)
     IN  /\ Len(replyAt) <= Len(chunkAt)
         /\ \A k \in 1..Len(replyAt) : replyAt[k] = chunkAt[k] + 1

\* Two chunks, each answered before the next call, the handler at its third read.
C11_Witness ==
  /\ hpc = "recv"
  /\ Len(io) = 5
  /\ IsRecv(io[2]) /\ io[3].op = "send"
  /\ IsRecv(io[4]) /\ io[5].op = "send"
  /\ io[3].data # io[5].data

\* C12: what a chunk adds to the accumulator is the product of that chunk's own
\* bytes (0 when they are not two integers), whatever was received before it: two
\* reads of the same bytes add the same, and the text parsed is the text of the
\* last chunk alone.
C12_NoBuffering ==
  /\ \A i \in 1..Len(io) :
       (IsRecv(io[i]) /\ ~(i = Len(io) /\ hpc = "process")) =>
         AccAfter(i) = io[i].acc + ChunkProduct(io[i].data)
  /\ \A i \in 1..Len(io) : \A j \in 1..Len(io) :
       (/\ IsRecv(io[i]) /\ IsRecv(io[j]) /\ i < j
        /\ io[i].data = io[j].data
        /\ ~(j = Len(io) /\ hpc = "process")) =>
         AccAfter(i) - io[i].acc = AccAfter(j) - io[j].acc
  /\ hpc = "send" =>
       /\ data = io[Len(io)].data
       /\ message = RStripNul(Utf8Decode(data))

\* A request cut in two: neither chunk is two integers, both together are, both
\* were answered and the accumulator is still 0.
C12_Witness ==
  /\ hpc = "recv"
  /\ Len(Chunks) = 2
  /\ Len(Replies) = 2
  /\ ~IsPair(Chunks[1].data)
  /\ ~IsPair(Chunks[2].data)
  /\ IsPair(Chunks[1].data \o Chunks[2].data)
  /\ accumulator = 0

\* Number of null bytes at the end of d, and d without them.
RECURSIVE TrailingNuls(_)
TrailingNuls(d) ==
  IF d # <<>> /\ d[Len(d)] = NUL THEN 1 + TrailingNuls(SubSeq(d, 1, Len(d) - 1)) ELSE 0

BeforeNuls(d) == SubSeq(d, 1, Len(d) - TrailingNuls(d))

\* d has a null byte followed later by a byte that is not null.
HasInnerNul(d) == \E j \in 1..Len(BeforeNuls(d)) : d[j] = NUL

\* b, which holds no null byte, is the text of two integers.
IsTwoInts(b) ==
  /\ Utf8Valid(b)
  /\ LET toks == Split(Utf8Decode(b))
     IN  Len(toks) = 2 /\ IntParse(toks[1]).ok /\ IntParse(toks[2]).ok

TwoIntsProduct(b) ==
  LET toks == Split(Utf8Decode(b))
  IN  IntParse(toks[1]).val * IntParse(toks[2]).val

\* The handler has dealt with the chunk of io[i].
Handled(i) == ~(i = Len(io) /\ hpc = "process")

\* The chunk of io[i] gets one response, carrying total n, and no second one.
OneReply(i, n) ==
  IF i = Len(io) THEN hpc = "send" /\ accumulator = n
  ELSE /\ IsReply(io[i + 1])
       /\ io[i + 1].data = WireText(n)
       /\ i + 2 <= Len(io) => ~IsReply(io[i + 2])

\* A chunk of two integers followed by one or several null bytes adds their
\* product and is answered with the new total.
TrailingNulsValid ==
  \A i \in 1..Len(io) :
    (/\ IsRecv(io[i]) /\ Handled(i)
     /\ TrailingNuls(io[i].data) >= 1
     /\ ~HasInnerNul(io[i].data)
     /\ IsTwoInts(BeforeNuls(io[i].data))) =>
      /\ AccAfter(i) = io[i].acc + TwoIntsProduct(BeforeNuls(io[i].data))
      /\ OneReply(i, AccAfter(i))

\* C13 as stated: every chunk with a null byte followed later by a non-null byte
\* is treated as malformed, with the accumulator unchanged and one response.
C13_InnerNulMalformed_AnyChunk ==
  /\ TrailingNulsValid
  /\ \A i \in 1..Len(io) :
       (IsRecv(io[i]) /\ Handled(i) /\ HasInnerNul(io[i].data)) =>
         AccAfter(i) = io[i].acc /\ OneReply(i, io[i].acc)

\* C13, amended: a chunk of two integers followed by one or several null bytes
\* is valid, and every chunk that decodes as UTF-8 and has a null byte followed
\* later by a non-null byte is treated as malformed, with the accumulator
\* unchanged and exactly one response.
C13_TrailingNulsOnly ==
  /\ TrailingNulsValid
  /\ \A i \in 1..Len(io) :
       (/\ IsRecv(io[i]) /\ Handled(i)
        /\ HasInnerNul(io[i].data)
        /\ Utf8Valid(io[i].data)) =>
         AccAfter(i) = io[i].acc /\ OneReply(i, io[i].acc)

\* Two null-terminated requests received in one chunk and answered once, with
\* the total unchanged.
C13_Witness ==
  /\ hpc = "recv"
  /\ Len(io) = 3
  /\ io[2].op = "recv"
  /\ io[2].data = ReqPos \o ReqNeg
  /\ io[3].op = "send"
  /\ io[3].data = WireText(0)
  /\ accumulator = 0

\* C14: the accumulator is 0 at the start, and the only step that changes it is
\* the parse of a chunk that holds two integers, which adds exactly their product;
\* every other step (a read, a failed decode or parse, a response sent or failed,
\* a zero-byte read, an error exit with its close, accept, what the clients do)
\* leaves it as it is.
C14_AccumulatorFrame ==
  /\ accumulator = 0
  /\ [][/\ accumulator' # accumulator =>
            /\ hpc = "process"
            /\ hpc' = "send"
            /\ IsPair(data)
            /\ accumulator' = accumulator + ChunkProduct(data)
        /\ (hpc = "process" /\ hpc' # "process" /\ IsPair(data)) =>
            accumulator' = accumulator + ChunkProduct(data)]_vars

\* The session has ended normally and the total of its two requests is kept.
C14_Witness ==
  /\ hpc = "returned"
  /\ spc = "done"
  /\ Len(Replies) = 2
  /\ accumulator = ChunkProduct(Chunks[1].data) + ChunkProduct(Chunks[2].data)
  /\ ChunkProduct(Chunks[1].data) # 0
  /\ ChunkProduct(Chunks[2].data) # 0
  /\ accumulator # 0

\* The handler runs: a recv returns once bytes are in flight or the peer has
\* closed, and a sendall ends, well or not. The decode and parse step waits for
\* nothing and ends: Process is enabled exactly where hpc = "process" and is
\* the only step that leaves it, so that its weak fairness is that the handler
\* is again and again elsewhere.
LiveSpec ==
  /\ Init
  /\ [][Next]_vars
  /\ WF_vars(RecvData)
  /\ WF_vars(RecvEof)
  /\ WF_vars(SendOk \/ SendError)
  /\ []<>(hpc # "process")

\* How an ended session ended: by a zero-byte read, or by an error of recv, of
\* the decode, or of sendall; close is the last call in each case.
EndedByEofOrError ==
  LET n == Len(io)
  IN  /\ n >= 3
      /\ io[n].op = "close"
      /\ \/ hpc = "returned" /\ io[n - 1].op = "recv" /\ io[n - 1].data = <<>>
         \/ hpc = "raised" /\ exc = "OSError" /\ io[n - 1].op = "recv_error"
         \/ hpc = "raised" /\ exc = "OSError" /\ io[n - 1].op = "send_error"
         \/ /\ hpc = "raised" /\ exc = "UnicodeDecodeError"
            /\ IsRecv(io[n - 1]) /\ ~Utf8Valid(io[n - 1].data)

\* The client is connected and silent: nothing in flight, its end open.
Silent == hpc = "recv" /\ client[conn] = "open" /\ wire[conn] = <<>>

\* The peer has closed and all it wrote has been received.
StreamEnded == conn # 0 /\ client[conn] = "closed" /\ wire[conn] = <<>>

\* C15: a session ends only by a zero-byte read or by an error of recv, decode or
\* send, never by the number or content of decodable requests; while the client
\* is connected and silent the handler stays at its recv, which only an error of
\* recv itself ends (there is no timeout); and once the peer has closed and its
\* bytes are received, the handler eventually ends with the connection closed.
C15_SessionTermination ==
  /\ [](hpc \in {"returned", "raised"} => EndedByEofOrError)
  /\ [][(Silent /\ hpc' # "recv") =>
          (hpc' = "raised" /\ exc' = "OSError" /\ io'[Len(io') - 1].op = "recv_error")]_vars
  /\ StreamEnded ~> (hpc \in {"returned", "raised"} /\ IsClosed(conn))

\* Two requests served, one of them malformed, then the peer closed and the
\* handler returned.
C15_Witness ==
  /\ hpc = "returned"
  /\ client[conn] = "closed"
  /\ IsClosed(conn)
  /\ Len(Replies) = 2
  /\ \E k \in 1..2 : ~IsPair(Chunks[k].data)
  /\ \E k \in 1..2 : IsPair(Chunks[k].data)

\* The sendall of the last call failed on the response to a valid request.
SendFailedOnValid ==
  LET n == Len(io)
  IN  /\ n >= 3
      /\ hpc = "raised"
      /\ io[n - 1].op = "send_error"
      /\ IsRecv(io[n - 2])
      /\ IsPair(io[n - 2].data)

\* C16: for a valid request the accumulator has been increased by a * b when the
\* response is handed to sendall, and a sendall that fails leaves it so: the
\* accumulator still includes the product of the request that got no response.
C16_UpdateBeforeWrite ==
  /\ (hpc = "send" /\ IsPair(data)) =>
       /\ IsRecv(io[Len(io)])
       /\ io[Len(io)].data = data
       /\ accumulator = io[Len(io)].acc + ChunkProduct(data)
  /\ \A i \in 2..Len(io) :
       (io[i].op \in {"send", "send_error"} /\ IsPair(io[i - 1].data)) =>
         /\ IsRecv(io[i - 1])
         /\ io[i].acc = io[i - 1].acc + ChunkProduct(io[i - 1].data)
         /\ io[i].data = Response(io[i].acc)
  /\ SendFailedOnValid =>
       LET n == Len(io)
       IN  /\ accumulator = io[n - 2].acc + ChunkProduct(io[n - 2].data)
           /\ io[n - 1].data = Response(accumulator)
           /\ \A i \in 1..n : io[i].op = "send" => i < n - 2

\* A first request was answered, the sendall for a second valid request with a
\* product other than zero failed, and the total includes that product.
C16_Witness ==
  /\ SendFailedOnValid
  /\ ChunkProduct(io[Len(io) - 2].data) # 0
  /\ io[Len(io) - 2].acc # 0
  /\ accumulator = io[Len(io) - 2].acc + ChunkProduct(io[Len(io) - 2].data)
  /\ \E i \in 1..Len(io) : io[i].op = "send"

====
